---- MODULE Spec2Model ----
(***************************************************************************)
(* A model of right-to-comment: the startup sequence of main, the POST     *)
(* /search handler with the two-call YouTube adapter (searchYouTube), the  *)
(* duration formatter (formatDuration) and the storage initializer         *)
(* (InitDB).                                                               *)
(*                                                                         *)
(* Text that the program inspects character by character (raw durations,   *)
(* formatted durations) is a sequence of one-character strings; opaque     *)
(* text (ids, titles, queries) is a TLA+ string.                           *)
(***************************************************************************)
EXTENDS Integers, Sequences, FiniteSets, TLC

\* ---------------------------------------------------------------- bounds

\* Requests the process serves before the model stops accepting more.
MaxRequests == 2
\* Longest search response the API is modelled to return.
MaxSearchItems == 2
\* Longest details response drawn freely from DetailItems.
MaxDetailItems == 2
\* Longest details response made of one repeated item (above MaxResults).
MaxFlood == 11
\* Longest free-form duration string handed to formatDuration.
MaxLen == 3
\* Largest small value of an hour, minute or second field of a duration.
MaxField == 5

\* The cap the search request asks of the API: MaxResults(10).
MaxResults == 10

\* ------------------------------------------------------------ data sets

Queries == {"cats", ""}

VideoIds == {"a", "b"}

\* One search result: item.Id.VideoId is all the adapter reads of it.
SearchItems == [videoId : VideoIds]

\* Details items as the API returns them: item.Id, item.Snippet.Title,
\* item.Snippet.ChannelTitle, item.ContentDetails.Duration (raw).
DetailItems ==
    { [id |-> "a", title |-> "ta", channel |-> "ca",
       duration |-> <<"P", "T", "2", "M", "5", "S">>],
      [id |-> "b", title |-> "tb", channel |-> "cb",
       duration |-> <<"P", "T", "1", "H", "2", "M", "3", "S">>],
      [id |-> "c", title |-> "tc", channel |-> "cc",
       duration |-> << >>] }

SeqsUpTo(S, n) == UNION { [1..k -> S] : k \in 0..n }

SearchResponses == SeqsUpTo(SearchItems, MaxSearchItems)

DetailsResponses ==
    SeqsUpTo(DetailItems, MaxDetailItems)
      \cup { [i \in 1..k |-> it] : k \in 1..MaxFlood, it \in DetailItems }

\* A Go slice value: nil, or a (possibly empty) allocated slice.
NilSlice == [isNil |-> TRUE, elems |-> << >>]
Slice(s) == [isNil |-> FALSE, elems |-> s]
GoLen(v) == Len(v.elems)

VARIABLES
    envFileOk,      \* whether godotenv.Load finds and reads .env
    envKey,         \* YOUTUBE_API_KEY of the environment once .env is loaded
    dbPath,         \* the storage the process would open: "ok", "openFails", "execFails"
    mainPc,         \* main: "start", "envLoaded", "keyRead", "serving", "fatal"
    apiKey,         \* main's apiKey, captured by handleSearch
    routes,         \* routes registered on the router
    hPc,            \* the POST /search handler: "idle", "newService", "searchCall",
                    \* "searchWait", "detailsCall", "detailsWait", "returned", "responded"
    query,          \* c.PostForm("query")
    err,            \* searchYouTube's err
    calls,          \* external calls this request has issued, in order
    searchResponse, \* searchResponse.Items
    videoIDs,       \* searchYouTube's videoIDs
    detailsResponse,\* detailsResponse.Items
    videos,         \* what searchYouTube returned
    response,       \* what the handler wrote to the client
    stdout,         \* lines printed by fmt.Println
    served,         \* requests answered so far
    duration,       \* formatDuration's argument (formatter specification)
    formatted,      \* formatDuration's result (formatter specification)
    fPc             \* formatter specification: "call", "returned"

mainVars == <<envFileOk, envKey, dbPath, mainPc, apiKey, routes>>
reqVars == <<hPc, query, err, calls, searchResponse, videoIDs, detailsResponse,
             videos, response, served>>
fmtVars == <<duration, formatted, fPc>>
vars == <<mainVars, reqVars, stdout, fmtVars>>

\* ------------------------------------------------- the duration formatter

Upper == <<"A", "B", "C", "D", "E", "F", "G", "H", "I", "J", "K", "L", "M",
           "N", "O", "P", "Q", "R", "S", "T", "U", "V", "W", "X", "Y", "Z">>
Lower == <<"a", "b", "c", "d", "e", "f", "g", "h", "i", "j", "k", "l", "m",
           "n", "o", "p", "q", "r", "s", "t", "u", "v", "w", "x", "y", "z">>
DigitChars == <<"0", "1", "2", "3", "4", "5", "6", "7", "8", "9">>

\* strings.ToLower, one character at a time.
ToLowerChar(c) ==
    IF \E i \in 1..Len(Upper) : Upper[i] = c
    THEN Lower[CHOOSE i \in 1..Len(Upper) : Upper[i] = c]
    ELSE c

ToLower(s) == [i \in 1..Len(s) |-> ToLowerChar(s[i])]

\* strings.ReplaceAll(s, "pt", ""): every non-overlapping "pt", found left to
\* right, is deleted, wherever it stands; the result is not scanned again.
RECURSIVE ReplaceAllPt(_)
ReplaceAllPt(s) ==
    IF Len(s) < 2 THEN s
    ELSE IF s[1] = "p" /\ s[2] = "t" THEN ReplaceAllPt(SubSeq(s, 3, Len(s)))
    ELSE <<s[1]>> \o ReplaceAllPt(Tail(s))

IsDigit(c) == \E i \in 1..Len(DigitChars) : DigitChars[i] = c
DigitVal(c) == (CHOOSE i \in 1..Len(DigitChars) : DigitChars[i] = c) - 1

RECURSIVE Pow10(_)
Pow10(k) == IF k = 0 THEN 1 ELSE 10 * Pow10(k - 1)

\* time.leadingInt: the leading [0-9]* of s as a number, and the rest.
RECURSIVE LeadingIntFrom(_, _)
LeadingIntFrom(s, x) ==
    IF s # << >> /\ IsDigit(s[1])
    THEN LeadingIntFrom(Tail(s), 10 * x + DigitVal(s[1]))
    ELSE [x |-> x, rem |-> s]

leadingInt(s) == LeadingIntFrom(s, 0)

\* time.leadingFraction: the leading [0-9]* of s as f with scale = 10^digits.
RECURSIVE LeadingFractionFrom(_, _, _)
LeadingFractionFrom(s, f, k) ==
    IF s # << >> /\ IsDigit(s[1])
    THEN LeadingFractionFrom(Tail(s), 10 * f + DigitVal(s[1]), k + 1)
    ELSE [f |-> f, digits |-> k, rem |-> s]

leadingFraction(s) == LeadingFractionFrom(s, 0, 0)

\* The unit of a term: the characters up to the next '.' or digit.
RECURSIVE UnitLen(_)
UnitLen(s) ==
    IF s = << >> \/ s[1] = "." \/ IsDigit(s[1]) THEN 0 ELSE 1 + UnitLen(Tail(s))

\* time.unitMap (its ASCII keys). A unit is sec whole seconds, or ns
\* nanoseconds when it is shorter than a second.
UnitNames == { <<"n", "s">>, <<"u", "s">>, <<"m", "s">>, <<"s">>, <<"m">>, <<"h">> }

unitMap(u) ==
    CASE u = <<"n", "s">> -> [sec |-> 0, ns |-> 1]
      [] u = <<"u", "s">> -> [sec |-> 0, ns |-> 1000]
      [] u = <<"m", "s">> -> [sec |-> 0, ns |-> 1000000]
      [] u = <<"s">>      -> [sec |-> 1, ns |-> 0]
      [] u = <<"m">>      -> [sec |-> 60, ns |-> 0]
      [] u = <<"h">>      -> [sec |-> 3600, ns |-> 0]

\* A time.Duration: an int64 count of nanoseconds, kept as a sign, whole
\* seconds and the nanoseconds below a second (TLC's integers are 32 bits wide).
ZeroDuration == [neg |-> FALSE, sec |-> 0, ns |-> 0]

NsPerSec == Pow10(9)

\* v*unit + uint64(float64(f) * (float64(unit) / scale)), as seconds and
\* nanoseconds. The float product is exact, or truncates as the integer
\* division does, for the fractions of up to nine digits modelled here.
TermValue(v, f, k, unit) ==
    IF unit.sec > 0
    THEN [sec |-> v * unit.sec + ((f * unit.sec) \div Pow10(k)),
          ns  |-> ((f * unit.sec) % Pow10(k)) * (NsPerSec \div Pow10(k))]
    ELSE LET perSec == NsPerSec \div unit.ns
             frac == IF Pow10(k) <= unit.ns
                     THEN f * (unit.ns \div Pow10(k))
                     ELSE f \div (Pow10(k) \div unit.ns)
             low == (v % perSec) * unit.ns + frac
         IN  [sec |-> (v \div perSec) + (low \div NsPerSec),
              ns  |-> low % NsPerSec]

\* v > 1<<63/unit: the term overflows int64 nanoseconds. The limits of the
\* units below a minute are beyond the numbers modelled.
TermOverflows(v, unit) ==
    \/ unit.sec = 3600 /\ v > 2562047
    \/ unit.sec = 60 /\ v > 153722867

AddDur(a, b) ==
    [sec |-> a.sec + b.sec + ((a.ns + b.ns) \div NsPerSec),
     ns  |-> (a.ns + b.ns) % NsPerSec]

ParseError == [err |-> TRUE, d |-> ZeroDuration]

\* The loop of time.ParseDuration over the terms ([0-9]*(\.[0-9]*)?[a-z]+)+,
\* with d the sum so far.
RECURSIVE ParseTerms(_, _)
ParseTerms(s, d) ==
    IF s = << >> THEN [err |-> FALSE, d |-> d]
    ELSE IF ~(s[1] = "." \/ IsDigit(s[1])) THEN ParseError
    ELSE
      LET li == leadingInt(s)
          pre == Len(li.rem) # Len(s)
          hasDot == li.rem # << >> /\ li.rem[1] = "."
          lf == IF hasDot THEN leadingFraction(Tail(li.rem))
                ELSE [f |-> 0, digits |-> 0, rem |-> li.rem]
          post == hasDot /\ Len(lf.rem) # Len(li.rem) - 1
          n == UnitLen(lf.rem)
          u == SubSeq(lf.rem, 1, n)
          rest == SubSeq(lf.rem, n + 1, Len(lf.rem))
      IN  IF ~pre /\ ~post THEN ParseError
          ELSE IF n = 0 THEN ParseError
          ELSE IF u \notin UnitNames THEN ParseError
          ELSE IF TermOverflows(li.x, unitMap(u)) THEN ParseError
          ELSE ParseTerms(rest, AddDur(d, TermValue(li.x, lf.f, lf.digits, unitMap(u))))

\* time.ParseDuration: [-+]? then the terms; "0" alone is zero; the empty
\* string, a term without digits, a missing or unknown unit are errors, and
\* an error returns the zero duration with it.
ParseDuration(s) ==
    LET signed == s # << >> /\ s[1] \in {"-", "+"}
        neg == signed /\ s[1] = "-"
        body == IF signed THEN Tail(s) ELSE s
    IN  IF body = <<"0">> THEN [err |-> FALSE, d |-> ZeroDuration]
        ELSE IF body = << >> THEN ParseError
        ELSE LET r == ParseTerms(body, [sec |-> 0, ns |-> 0])
             IN  IF r.err THEN ParseError
                 ELSE [err |-> FALSE,
                       d |-> [neg |-> neg /\ (r.d.sec # 0 \/ r.d.ns # 0),
                              sec |-> r.d.sec, ns |-> r.d.ns]]

\* Go's int(float) conversion truncates toward zero and its % takes the sign
\* of the dividend.
Signed(d, n) == IF d.neg THEN 0 - n ELSE n
GoRem(a, b) == IF a >= 0 THEN a % b ELSE 0 - ((0 - a) % b)

\* Mutants: the minutes, the seconds, taken without the % 60.
DurMinutesNoWrap(d) == Signed(d, d.sec \div 60)
DurSecondsNoWrap(d) == Signed(d, d.sec)

\* int(d.Hours()), int(d.Minutes()) % 60, int(d.Seconds()) % 60
DurHours(d) == Signed(d, d.sec \div 3600)
DurMinutes(d) == GoRem(Signed(d, d.sec \div 60), 60)
DurSeconds(d) == GoRem(Signed(d, d.sec), 60)

\* fmt's %d of a non-negative number.
RECURSIVE Digits(_)
Digits(n) ==
    IF n < 10 THEN <<DigitChars[n + 1]>>
    ELSE Digits(n \div 10) \o <<DigitChars[(n % 10) + 1]>>

\* %d
FmtD(n) == IF n < 0 THEN <<"-">> \o Digits(0 - n) ELSE Digits(n)

\* %02d: zeros fill to width two between the sign and the digits.
Fmt02D(n) ==
    LET sign == IF n < 0 THEN <<"-">> ELSE << >>
        digs == Digits(IF n < 0 THEN 0 - n ELSE n)
    IN  IF Len(sign) + Len(digs) < 2 THEN sign \o <<"0">> \o digs
        ELSE sign \o digs

\* Mutant: the minutes padded too ("%02d:%02d").
SprintfMSPadded(m, s) == Fmt02D(m) \o <<":">> \o Fmt02D(s)

\* The two Sprintf calls of formatDuration.
SprintfHMS(h, m, s) == FmtD(h) \o <<":">> \o Fmt02D(m) \o <<":">> \o Fmt02D(s)
SprintfMS(m, s) == FmtD(m) \o <<":">> \o Fmt02D(s)

\* d, _ := time.ParseDuration(strings.ReplaceAll(strings.ToLower(duration), "pt", ""))
ParsedDuration(dur) == ParseDuration(ReplaceAllPt(ToLower(dur))).d

formatDuration(dur) ==
    LET d == ParsedDuration(dur)
        hours == DurHours(d)
        minutes == DurMinutes(d)
        seconds == DurSeconds(d)
    IN  IF hours > 0 THEN SprintfHMS(hours, minutes, seconds)
        ELSE SprintfMS(minutes, seconds)

\* --------------------------------------------------------------- storage

\* database.InitDB: sql.Open, then CREATE TABLE IF NOT EXISTS; either error is
\* returned, and db is assigned whichever way sql.Open ends.
InitDB(path) ==
    IF path = "openFails" THEN [db |-> "nil", err |-> "openErr"]
    ELSE IF path = "execFails" THEN [db |-> "open", err |-> "execErr"]
    ELSE [db |-> "open", err |-> "nil"]

\* ------------------------------------------------------------------ main

AllRoutes == {"GET /", "POST /search", "GET /embed/:id"}

\* err := godotenv.Load(); log.Fatal when it fails.
LoadEnv ==
    /\ mainPc = "start"
    /\ mainPc' = IF envFileOk THEN "envLoaded" ELSE "fatal"
    /\ UNCHANGED <<envFileOk, envKey, dbPath, apiKey, routes, reqVars, stdout, fmtVars>>

\* apiKey := os.Getenv("YOUTUBE_API_KEY"); log.Fatal when it is empty.
GetApiKey ==
    /\ mainPc = "envLoaded"
    /\ apiKey' = envKey
    /\ mainPc' = IF envKey = "" THEN "fatal" ELSE "keyRead"
    /\ UNCHANGED <<envFileOk, envKey, dbPath, routes, reqVars, stdout, fmtVars>>

\* gin.Default(), the three routes, router.Run(":8080").
RunRouter ==
    /\ mainPc = "keyRead"
    /\ routes' = AllRoutes
    /\ mainPc' = "serving"
    /\ UNCHANGED <<envFileOk, envKey, dbPath, apiKey, reqVars, stdout, fmtVars>>

\* ------------------------------------------------------- the search adapter

\* Mutant: log.Fatal in place of fmt.Println, which ends the process.
PrintErrFatal(msg) ==
    /\ stdout' = Append(stdout, msg)
    /\ mainPc' = "fatal"

\* fmt.Println of an error: a line on stdout, and the process goes on.
PrintErr(msg) ==
    /\ stdout' = Append(stdout, msg)
    /\ UNCHANGED mainPc

\* Mutant: the error of searchCall.Do() is not checked.
SearchFailedUnchecked(e) == FALSE

\* if err != nil, after NewService, after searchCall.Do(), after detailsCall.Do()
InitFailed(e) == e # "nil"
SearchFailed(e) == e # "nil"
DetailsFailed(e) == e # "nil"

\* Mutant: each id is put in front of the ones already collected.
CollectIDsPrepended(items) == [i \in 1..Len(items) |-> items[Len(items) + 1 - i].videoId]

\* for _, item := range searchResponse.Items { videoIDs = append(videoIDs, item.Id.VideoId) }
CollectIDs(items) == [i \in 1..Len(items) |-> items[i].videoId]

\* strings.Join: the elements with sep between each two.
RECURSIVE Join(_, _)
Join(elems, sep) ==
    IF elems = << >> THEN << >>
    ELSE IF Len(elems) = 1 THEN <<elems[1]>>
    ELSE <<elems[1], sep>> \o Join(Tail(elems), sep)

\* service.Search.List([id, snippet]).Q(query).MaxResults(10).Type("video")
SearchCall(key, q) ==
    [api |-> "search.list", key |-> key, part |-> <<"id", "snippet">>, q |-> q,
     maxResults |-> MaxResults, type |-> "video", id |-> << >>]

\* service.Videos.List([snippet, contentDetails]).Id(strings.Join(videoIDs, ","))
DetailsCall(key, ids) ==
    [api |-> "videos.list", key |-> key, part |-> <<"snippet", "contentDetails">>,
     q |-> "", maxResults |-> 0, type |-> "", id |-> Join(ids, ",")]

\* Mutant: the records are built last item first.
BuildVideosReversed(items) ==
    [i \in 1..Len(items) |->
        [id |-> items[Len(items) + 1 - i].id, title |-> items[Len(items) + 1 - i].title,
         channel |-> items[Len(items) + 1 - i].channel,
         duration |-> formatDuration(items[Len(items) + 1 - i].duration)]]

\* One record per details item, in the order of the details response.
BuildVideos(items) ==
    [i \in 1..Len(items) |->
        [id |-> items[i].id, title |-> items[i].title,
         channel |-> items[i].channel,
         duration |-> formatDuration(items[i].duration)]]

\* ------------------------------------------------------- the search handler

NoResponse == [status |-> 0, kind |-> "none", body |-> "", data |-> << >>]
\* c.String(http.StatusNotFound, "No videos found.")
NotFound == [status |-> 404, kind |-> "text", body |-> "No videos found.", data |-> << >>]
\* c.HTML(http.StatusOK, "results.html", gin.H{"Videos": videos})
Results(vs) == [status |-> 200, kind |-> "html", body |-> "results.html", data |-> vs.elems]

\* Mutant: videos == nil in place of len(videos) == 0.
IsEmptyNilOnly(vs) == vs.isNil

\* if len(videos) == 0
IsEmpty(vs) == GoLen(vs) = 0

Render(vs) == IF IsEmpty(vs) THEN NotFound ELSE Results(vs)

\* POST /search arrives: query := c.PostForm("query"), and searchYouTube starts.
\* Requests are taken one after another: a handler's variables are its own,
\* and apiKey, the one value handlers share, is only read.
ReceiveSearch ==
    /\ mainPc = "serving"
    /\ "POST /search" \in routes
    /\ hPc \in {"idle", "responded"}
    /\ served < MaxRequests
    /\ \E q \in Queries : query' = q
    /\ hPc' = "newService"
    /\ err' = "nil"
    /\ calls' = << >>
    /\ searchResponse' = << >>
    /\ videoIDs' = << >>
    /\ detailsResponse' = << >>
    /\ videos' = NilSlice
    /\ response' = NoResponse
    /\ UNCHANGED <<mainVars, served, stdout, fmtVars>>

\* service, err := youtube.NewService(ctx, option.WithAPIKey(apiKey))
NewService ==
    /\ hPc = "newService"
    /\ \E e \in {"nil", "initErr"} :
         /\ err' = e
         /\ IF InitFailed(e)
            THEN /\ PrintErr("Error initializing YouTube service:")
                 /\ videos' = NilSlice
                 /\ hPc' = "returned"
            ELSE /\ hPc' = "searchCall"
                 /\ UNCHANGED <<videos, stdout, mainPc>>
    /\ UNCHANGED <<envFileOk, envKey, dbPath, apiKey, routes, query, calls,
                   searchResponse, videoIDs, detailsResponse, response, served, fmtVars>>

\* searchCall.Do() sends the search request.
SearchIssue ==
    /\ hPc = "searchCall"
    /\ calls' = Append(calls, SearchCall(apiKey, query))
    /\ hPc' = "searchWait"
    /\ UNCHANGED <<mainVars, query, err, searchResponse, videoIDs, detailsResponse,
                   videos, response, served, stdout, fmtVars>>

\* searchCall.Do() returns: an error, or a response whose ids are collected.
SearchReturn ==
    /\ hPc = "searchWait"
    /\ \E e \in {"nil", "searchErr"} :
       \E items \in IF e = "nil" THEN SearchResponses ELSE {<< >>} :
         /\ err' = e
         /\ searchResponse' = items
         /\ IF SearchFailed(e)
            THEN /\ PrintErr("Error searching YouTube:")
                 /\ videos' = NilSlice
                 /\ hPc' = "returned"
                 /\ UNCHANGED videoIDs
            ELSE /\ videoIDs' = CollectIDs(items)
                 /\ hPc' = "detailsCall"
                 /\ UNCHANGED <<videos, stdout, mainPc>>
    /\ UNCHANGED <<envFileOk, envKey, dbPath, apiKey, routes, query, calls,
                   detailsResponse, response, served, fmtVars>>

\* detailsCall.Do() sends the details request for the joined ids.
DetailsIssue ==
    /\ hPc = "detailsCall"
    /\ calls' = Append(calls, DetailsCall(apiKey, videoIDs))
    /\ hPc' = "detailsWait"
    /\ UNCHANGED <<mainVars, query, err, searchResponse, videoIDs, detailsResponse,
                   videos, response, served, stdout, fmtVars>>

\* detailsCall.Do() returns: an error, or a response the records are built from.
DetailsReturn ==
    /\ hPc = "detailsWait"
    /\ \E e \in {"nil", "detailsErr"} :
       \E items \in IF e = "nil" THEN DetailsResponses ELSE {<< >>} :
         /\ err' = e
         /\ detailsResponse' = items
         /\ IF DetailsFailed(e)
            THEN /\ PrintErr("Error fetching video details:")
                 /\ videos' = NilSlice
            ELSE /\ videos' = Slice(BuildVideos(items))
                 /\ UNCHANGED <<stdout, mainPc>>
         /\ hPc' = "returned"
    /\ UNCHANGED <<envFileOk, envKey, dbPath, apiKey, routes, query, calls,
                   searchResponse, videoIDs, response, served, fmtVars>>

\* handleSearch chooses the response from what searchYouTube returned.
Respond ==
    /\ hPc = "returned"
    /\ response' = Render(videos)
    /\ served' = served + 1
    /\ hPc' = "responded"
    /\ UNCHANGED <<mainVars, query, err, calls, searchResponse, videoIDs,
                   detailsResponse, videos, stdout, fmtVars>>

\* ------------------------------------------------------------ the program

Init ==
    /\ envFileOk \in BOOLEAN
    /\ envKey \in {"", "key"}
    /\ dbPath \in {"ok", "openFails", "execFails"}
    /\ mainPc = "start"
    /\ apiKey = ""
    /\ routes = {}
    /\ hPc = "idle"
    /\ query = ""
    /\ err = "nil"
    /\ calls = << >>
    /\ searchResponse = << >>
    /\ videoIDs = << >>
    /\ detailsResponse = << >>
    /\ videos = NilSlice
    /\ response = NoResponse
    /\ stdout = << >>
    /\ served = 0
    /\ duration = << >>
    /\ formatted = << >>
    /\ fPc = "idle"

Next ==
    \/ LoadEnv
    \/ GetApiKey
    \/ RunRouter
    \/ ReceiveSearch
    \/ NewService
    \/ SearchIssue
    \/ SearchReturn
    \/ DetailsIssue
    \/ DetailsReturn
    \/ Respond

Spec == Init /\ [][Next]_vars

\* ------------------------------------------- the formatter specification

\* The characters free-form duration strings are made of.
Alphabet == {"P", "T", "t", "H", "M", "S", "m", "s", "0", "1", "5", "-", ".", "x"}

\* Values of an hour, minute or second field: the small ones, and the ones
\* around a carry into the next field.
FieldValues == (0..MaxField) \cup {59, 60, 61, 90, 3600}
FieldChoices == {<< >>} \cup { <<n>> : n \in FieldValues }

Field(f, u) == IF f = << >> THEN << >> ELSE Digits(f[1]) \o <<u>>

\* PT[nH][nM][nS] as the API writes it.
IsoDuration(h, m, s) == <<"P", "T">> \o Field(h, "H") \o Field(m, "M") \o Field(s, "S")

FormatInputs ==
    { IsoDuration(h, m, s) : h \in FieldChoices, m \in FieldChoices, s \in FieldChoices }
      \cup SeqsUpTo(Alphabet, MaxLen)

InitFmt ==
    /\ envFileOk = TRUE
    /\ envKey = "key"
    /\ dbPath = "ok"
    /\ mainPc = "start"
    /\ apiKey = ""
    /\ routes = {}
    /\ hPc = "idle"
    /\ query = ""
    /\ err = "nil"
    /\ calls = << >>
    /\ searchResponse = << >>
    /\ videoIDs = << >>
    /\ detailsResponse = << >>
    /\ videos = NilSlice
    /\ response = NoResponse
    /\ stdout = << >>
    /\ served = 0
    /\ duration \in FormatInputs
    /\ formatted = << >>
    /\ fPc = "call"

\* One call of formatDuration on the chosen string.
FormatCall ==
    /\ fPc = "call"
    /\ formatted' = formatDuration(duration)
    /\ fPc' = "returned"
    /\ UNCHANGED <<mainVars, reqVars, stdout, duration>>

NextFmt == FormatCall

SpecFmt == InitFmt /\ [][NextFmt]_vars

\* ------------------------------------------------------------ properties

\* Whether the current request has issued a call to the given API method.
Issued(api) == \E i \in 1..Len(calls) : calls[i].api = api

\* C1: when the search call returns an error, no details call is issued for
\* that request and the adapter returns an empty sequence.
C1_SearchFailureSkipsDetails ==
    err = "searchErr" =>
        /\ ~Issued("videos.list")
        /\ hPc \in {"returned", "responded"}
        /\ GoLen(videos) = 0

C1_Witness ==
    /\ err = "searchErr"
    /\ hPc = "responded"
    /\ Len(calls) = 1

\* C2: a failure of client initialization, of the search call or of the details
\* call is not fatal: the adapter returns an empty sequence, the request ends
\* with 404 "No videos found.", and the process goes on serving requests.
C2_FailureIsNotFatal ==
    /\ err # "nil" =>
         /\ hPc \in {"returned", "responded"}
         /\ videos.elems = << >>
         /\ hPc = "responded" =>
              /\ response.status = 404
              /\ response.body = "No videos found."
              /\ response.data = << >>
              /\ served < MaxRequests => ENABLED ReceiveSearch
    /\ stdout # << >> => mainPc = "serving"

C2_Witness ==
    /\ Len(stdout) = 2
    /\ stdout[1] = "Error initializing YouTube service:"
    /\ stdout[2] = "Error fetching video details:"
    /\ err = "detailsErr"
    /\ hPc = "responded"
    /\ response = NotFound

\* C3: whenever the adapter's result is empty, nil or of length zero, the
\* handler answers 404 with the text "No videos found." and renders no view.
C3_EmptyResultIsNotFound ==
    (hPc = "responded" /\ GoLen(videos) = 0) =>
        /\ response.status = 404
        /\ response.kind = "text"
        /\ response.body = "No videos found."

C3_Witness ==
    /\ hPc = "responded"
    /\ err = "nil"
    /\ Issued("videos.list")
    /\ ~videos.isNil
    /\ videos.elems = << >>
    /\ response.status = 404

\* C4: when both calls succeed and the details response has items, the handler
\* renders the results view with one record per item, in the order of the
\* details response, each with the item's id, title, channel and its duration
\* formatted.
C4_ResultsFollowDetails ==
    (hPc = "responded" /\ err = "nil" /\ Len(detailsResponse) > 0) =>
        /\ response.status = 200
        /\ response.kind = "html"
        /\ response.body = "results.html"
        /\ Len(response.data) = Len(detailsResponse)
        /\ \A i \in 1..Len(detailsResponse) :
             /\ response.data[i].id = detailsResponse[i].id
             /\ response.data[i].title = detailsResponse[i].title
             /\ response.data[i].channel = detailsResponse[i].channel
             /\ response.data[i].duration = formatDuration(detailsResponse[i].duration)
             /\ detailsResponse[i].id = "a" =>
                  response.data[i].duration = <<"2", ":", "0", "5">>
             /\ detailsResponse[i].id = "b" =>
                  response.data[i].duration = <<"1", ":", "0", "2", ":", "0", "3">>

C4_Witness ==
    /\ hPc = "responded"
    /\ err = "nil"
    /\ Len(detailsResponse) = 2
    /\ detailsResponse[1].id = "b"
    /\ detailsResponse[2].id = "a"
    /\ response.status = 200

\* C5: the adapter returns at most 10 records, whatever the search and the
\* details responses contain.
C5_AtMostTenRecords == GoLen(videos) <= MaxResults

\* C8: a missing credential or a failing storage initialization stops the
\* process at startup: no route is registered and no request is served.
C8_StartupErrorsAreFatal ==
    (envKey = "" \/ InitDB(dbPath).err # "nil") =>
        /\ mainPc # "serving"
        /\ routes = {}
        /\ hPc = "idle"
        /\ served = 0

\* The ids a joined text holds, read back: ids at the odd places, commas
\* between them.
HoldsIdsInOrder(arg, items) ==
    /\ Len(arg) = (IF Len(items) = 0 THEN 0 ELSE 2 * Len(items) - 1)
    /\ \A i \in 1..Len(items) : arg[2 * i - 1] = items[i].videoId
    /\ \A i \in 1..(Len(items) - 1) : arg[2 * i] = ","

\* C9: one request issues at most one search call and at most one details
\* call, never both at once and never again; the details call is issued only
\* after the search call has returned without error, for the ids of that
\* search response in its order.
C9_CallsAreSequential ==
    /\ Len(calls) <= 2
    /\ Len(calls) >= 1 => calls[1].api = "search.list"
    /\ hPc = "searchWait" => Len(calls) = 1
    /\ Len(calls) = 2 =>
         /\ calls[2].api = "videos.list"
         /\ hPc \in {"detailsWait", "returned", "responded"}
         /\ err \in {"nil", "detailsErr"}
         /\ HoldsIdsInOrder(calls[2].id, searchResponse)

C9_Witness ==
    /\ hPc = "detailsWait"
    /\ Len(searchResponse) = 2
    /\ searchResponse[1].videoId = "b"
    /\ searchResponse[2].videoId = "a"
    /\ Len(calls) = 2

\* Clock text read back: the fields between the colons, and a field's value.
RECURSIVE SplitClock(_)
SplitClock(s) ==
    IF \E i \in 1..Len(s) : s[i] = ":"
    THEN LET i == CHOOSE j \in 1..Len(s) :
                    s[j] = ":" /\ \A k \in 1..(j - 1) : s[k] # ":"
         IN  <<SubSeq(s, 1, i - 1)>> \o SplitClock(SubSeq(s, i + 1, Len(s)))
    ELSE <<s>>

AllDigits(f) == f # << >> /\ \A i \in 1..Len(f) : IsDigit(f[i])

RECURSIVE DecimalValue(_)
DecimalValue(f) ==
    IF f = << >> THEN 0
    ELSE 10 * DecimalValue(SubSeq(f, 1, Len(f) - 1)) + DigitVal(f[Len(f)])

Unpadded(f) == AllDigits(f) /\ (Len(f) = 1 \/ f[1] # "0")
TwoDigits(f) == Len(f) = 2 /\ AllDigits(f)

\* PT[nH][nM][nS] read as ISO 8601 reads it: the run of digits before the
\* letter u, when s starts with one.
RECURSIVE DigitRun(_)
DigitRun(s) == IF s # << >> /\ IsDigit(s[1]) THEN 1 + DigitRun(Tail(s)) ELSE 0

TakeField(s, u) ==
    LET n == DigitRun(s)
    IN  IF n > 0 /\ Len(s) > n /\ s[n + 1] = u
        THEN [val |-> DecimalValue(SubSeq(s, 1, n)), rest |-> SubSeq(s, n + 2, Len(s))]
        ELSE [val |-> 0, rest |-> s]

IsoRead(s) ==
    IF Len(s) < 2 \/ s[1] # "P" \/ s[2] # "T" THEN [ok |-> FALSE, total |-> 0]
    ELSE LET h == TakeField(SubSeq(s, 3, Len(s)), "H")
             m == TakeField(h.rest, "M")
             sc == TakeField(m.rest, "S")
         IN  [ok |-> sc.rest = << >>,
              total |-> 3600 * h.val + 60 * m.val + sc.val]

ZeroClock == <<"0", ":", "0", "0">>

\* C6: for a well-formed PT[nH][nM][nS] the output is the elapsed time split
\* into hours, minutes mod 60 and seconds mod 60: M:SS when the hours are zero,
\* H:MM:SS otherwise, the first field unpadded and the others of two digits.
C6_FormatsWellFormedDurations ==
    (fPc = "returned" /\ IsoRead(duration).ok) =>
        LET total == IsoRead(duration).total
            h == total \div 3600
            m == (total \div 60) % 60
            sc == total % 60
            fs == SplitClock(formatted)
        IN  /\ IF h = 0
               THEN /\ Len(fs) = 2
                    /\ Unpadded(fs[1]) /\ DecimalValue(fs[1]) = m
                    /\ TwoDigits(fs[2]) /\ DecimalValue(fs[2]) = sc
               ELSE /\ Len(fs) = 3
                    /\ Unpadded(fs[1]) /\ DecimalValue(fs[1]) = h
                    /\ TwoDigits(fs[2]) /\ DecimalValue(fs[2]) = m
                    /\ TwoDigits(fs[3]) /\ DecimalValue(fs[3]) = sc
            /\ duration = <<"P", "T", "2", "M", "5", "S">> =>
                 formatted = <<"2", ":", "0", "5">>
            /\ duration = <<"P", "T", "1", "H", "2", "M", "3", "S">> =>
                 formatted = <<"1", ":", "0", "2", ":", "0", "3">>

C6_Witness ==
    /\ fPc = "returned"
    /\ duration = <<"P", "T", "1", "H", "9", "0", "M", "6", "1", "S">>
    /\ formatted = <<"2", ":", "3", "1", ":", "0", "1">>

\* C7 as stated: the empty string and every string that is not PT followed by
\* hour, minute and second components give "0:00".
C7_MalformedGivesZero ==
    (fPc = "returned" /\ (duration = << >> \/ ~IsoRead(duration).ok)) =>
        formatted = ZeroClock

\* C7 amended: the empty string and every string that time.ParseDuration
\* rejects, once lowercased and with every "pt" deleted, give "0:00", and the
\* call returns.
C7_UnparsableGivesZero ==
    /\ fPc = "returned" /\ duration = << >> => formatted = ZeroClock
    /\ (fPc = "returned" /\ ParseDuration(ReplaceAllPt(ToLower(duration))).err) =>
         formatted = ZeroClock
    /\ fPc \in {"call", "returned"}

C7_Witness ==
    /\ fPc = "returned"
    /\ duration = <<"P", "T", "x">>
    /\ formatted = ZeroClock

\* Clock text: an unpadded number, then one or two fields of two digits, each
\* at most 59.
WellFormedClock(out) ==
    LET fs == SplitClock(out)
    IN  /\ Len(fs) \in {2, 3}
        /\ Unpadded(fs[1])
        /\ \A i \in 2..Len(fs) : TwoDigits(fs[i]) /\ DecimalValue(fs[i]) <= 59

\* C10 as stated: the output is clock text for every input string, the ones
\* that parse to a negative duration included.
C10_AlwaysClockText == fPc = "returned" => WellFormedClock(formatted)

\* C10 amended: the output is clock text for every input string that fails to
\* parse or parses to a duration above minus one second, the fractional ones
\* included.
C10_ClockTextUnlessNegative ==
    (fPc = "returned"
       /\ ~(ParsedDuration(duration).neg /\ ParsedDuration(duration).sec >= 1)) =>
        WellFormedClock(formatted)

C10_Witness ==
    /\ fPc = "returned"
    /\ duration = <<".", "5", "m">>
    /\ ParsedDuration(duration).sec = 30
    /\ formatted = <<"0", ":", "3", "0">>

====
